---- MODULE Spec2Model ----
(***************************************************************************)
(* Library system backend (backend/main.py): the relational tables as     *)
(* sequences of rows indexed by their auto-increment key, and one action   *)
(* per API handler.  Money is counted in cents (DECIMAL(10,2) columns),    *)
(* time in ticks of 1/TicksPerDay day, measured from the current instant:  *)
(* datetime.utcnow() is Now, and due[i] is borrow_record.due_time of the   *)
(* open record i on that scale, so the passing of one tick moves it one    *)
(* tick towards the past.  due_time is read by return_book alone, and      *)
(* only of a record whose status is "borrowed": due keeps no entry for a   *)
(* returned record.  index is the external search index the catalog       *)
(* handlers mirror books into, and sessions holds the lifecycle handlers   *)
(* that have read their rows and not yet committed.                        *)
(***************************************************************************)
EXTENDS Integers, Sequences, FiniteSets

\* ---------------------------------------------------------------- bounds
MaxBooks == 1
MaxCopies == 2
MaxReaders == 1
MaxBorrows == 2
MaxLate == 4
TicksPerDay == 2
SameDayBooks == 2
SameDayCopies == 2
SameDayReaders == 1
SameDayBorrows == 2
SameDayEdits == 1
MaxEdits == 1
PairBooks == 1
PairCopies == 2
PairReaders == 2
PairBorrows == 2
PairEdits == 1
MirrorBooks == 1
MirrorCopies == 2
MirrorReaders == 1
MirrorBorrows == 1
MirrorEdits == 1
MaxSessions == 2
ConcBooks == 1
ConcCopies == 2
ConcReaders == 1
ConcBorrows == 2

\* ------------------------------------------------------ program constants
DamageFine == 1000

VARIABLES books, copies, readers, borrows, fines, payments, due, edits, index,
          sessions

vars == <<books, copies, readers, borrows, fines, payments, due, edits,
         index, sessions>>

\* --------------------------------------------------------------- schema
CopyStatus == {"available", "borrowed", "lost", "repair"}
ReaderStatus == {"active", "blocked"}
PayMethods == {"cash", "wechat", "alipay", "card", "other"}
StaffRoles == {"admin", "librarian"}

\* reader_category rows (seed data: the API has no route that writes them).
Categories ==
  <<[max_borrow_count |-> 1, max_borrow_days |-> 1, fine_per_day |-> 50],
    [max_borrow_count |-> 2, max_borrow_days |-> 1, fine_per_day |-> 0]>>

\* A deleted row keeps its key (auto-increment keys are never reused).
NoBook == [alive |-> FALSE, total_copies |-> 0, available_copies |-> 0]
NoCopy == [alive |-> FALSE, book_id |-> 0, status |-> "lost"]
NoReader == [alive |-> FALSE, category_id |-> 0, status |-> "blocked",
             borrowed_count |-> 0, fine_balance |-> 0, fine_total_history |-> 0]

BookExists(bid) == bid \in DOMAIN books /\ books[bid].alive
CopyExists(cid) == cid \in DOMAIN copies /\ copies[cid].alive
ReaderExists(rid) == rid \in DOMAIN readers /\ readers[rid].alive

\* ------------------------------------------------------------- callers
\* Token payloads login/register_reader issue: staff carry no reader_id,
\* a reader token carries the reader_id it was registered with.
Staff == {[role |-> r, reader_id |-> 0] : r \in StaffRoles}
ReaderTokens == {[role |-> "reader", reader_id |-> r] : r \in DOMAIN readers}
Callers == Staff \cup ReaderTokens

RequireRole(user, roles) == user.role \in roles

\* ------------------------------------------------------------- sessions
\* Requests in flight: sessions[p] is what the handler running in worker p
\* has read in its transaction and not yet committed, Idle when the worker
\* runs no handler.
Procs == 1..MaxSessions

Idle == [op |-> "idle"]

\* ----------------------------------------------------------------- Init
Init ==
  /\ books = <<>>
  /\ copies = <<>>
  /\ readers = <<>>
  /\ borrows = <<>>
  /\ fines = <<>>
  /\ payments = <<>>
  /\ due = <<>>
  /\ edits = 0
  /\ index = <<>>
  /\ sessions = [p \in Procs |-> Idle]

\* datetime.utcnow()
Now == 0

\* One tick of wall-clock time passes.
Tick ==
  /\ DOMAIN due # {}
  /\ \A i \in DOMAIN due : Now - due[i] < MaxLate
  /\ due' = [i \in DOMAIN due |-> due[i] - 1]
  /\ UNCHANGED <<books, copies, readers, borrows, fines, payments>>

\* ------------------------------------------------- storage constraints
\* FOREIGN KEY references that make the commit of a DELETE fail.
BookReferenced(bid) == \E i \in DOMAIN borrows : borrows[i].book_id = bid
CopyReferenced(cid) == \E i \in DOMAIN borrows : borrows[i].copy_id = cid
ReaderReferenced(rid) ==
  \/ \E i \in DOMAIN borrows : borrows[i].reader_id = rid
  \/ \E i \in DOMAIN fines : fines[i].reader_id = rid
  \/ \E i \in DOMAIN payments : payments[i].reader_id = rid

\* --------------------------------------------------------------- readers
RegisterReader(category_id) ==
  /\ UNCHANGED <<books, copies, borrows, fines, payments, due>>
  /\ IF category_id \notin DOMAIN Categories
     THEN UNCHANGED readers
     ELSE readers' = Append(readers,
            [alive |-> TRUE, category_id |-> category_id, status |-> "active",
             borrowed_count |-> 0, fine_balance |-> 0, fine_total_history |-> 0])

\* ReaderUpdateIn carries category_id, status and contact fields only; a
\* field left unset keeps its value, which is the same as sending it again.
UpdateReader(user, reader_id, category_id, status) ==
  /\ UNCHANGED <<books, copies, borrows, fines, payments, due>>
  /\ IF \/ ~RequireRole(user, {"admin", "librarian"})
        \/ ~ReaderExists(reader_id)
        \/ category_id \notin DOMAIN Categories
     THEN UNCHANGED <<readers>>
     ELSE readers' = [readers EXCEPT ![reader_id].category_id = category_id,
                                     ![reader_id].status = status]

DeleteReader(user, reader_id) ==
  /\ UNCHANGED <<books, copies, borrows, fines, payments, due>>
  /\ IF \/ ~RequireRole(user, {"admin"})
        \/ ~ReaderExists(reader_id)
        \/ \E i \in DOMAIN borrows :
             borrows[i].reader_id = reader_id /\ borrows[i].status = "borrowed"
        \/ ReaderReferenced(reader_id)
     THEN UNCHANGED readers
     ELSE readers' = [readers EXCEPT ![reader_id] = NoReader]

\* -------------------------------------------------------- search mirror
\* index is the external search index: the objects saved in it, keyed by
\* book_id, with the counters they were saved with.  A mirror call has one
\* of three outcomes: "off" (get_algolia returns None: the index is not
\* configured or its client could not be built), "saved" (the index call
\* returned) and "raised" (the index call raised; the write is then taken
\* as not applied).
MirrorOutcomes == {"off", "saved", "raised"}

BookToObject(book) ==
  [total_copies |-> book.total_copies,
   available_copies |-> book.available_copies,
   is_available |-> book.available_copies > 0]

UpsertBook(idx, bid, book, outcome) ==
  IF outcome = "saved"
  THEN [b \in DOMAIN idx \cup {bid} |->
          IF b = bid THEN BookToObject(book) ELSE idx[b]]
  ELSE idx

IndexDeleteBook(idx, bid, outcome) ==
  IF outcome = "saved" THEN [b \in DOMAIN idx \ {bid} |-> idx[b]] ELSE idx

\* What the caller of a catalog handler receives: the handler's own error
\* if it raised one, else the exception of the mirror call, which no
\* handler catches, else the success result.
Response(error, outcome) ==
  IF error # "ok" THEN error
  ELSE IF outcome = "raised" THEN "mirror_exception"
  ELSE "ok"

\* ----------------------------------------------------------------- books
CreateBookError(user) ==
  IF ~RequireRole(user, {"admin", "librarian"}) THEN "forbidden" ELSE "ok"

\* BookIn has no total_copies / available_copies: both take the column
\* default 0.
CreateBook(user, outcome) ==
  /\ UNCHANGED <<copies, readers, borrows, fines, payments, due>>
  /\ IF CreateBookError(user) # "ok"
     THEN UNCHANGED <<books, index>>
     ELSE /\ books' = Append(books,
               [alive |-> TRUE, total_copies |-> 0, available_copies |-> 0])
          /\ index' = UpsertBook(index, Len(books) + 1,
                                 books'[Len(books) + 1], outcome)

UpdateBookError(user, bid) ==
  IF ~RequireRole(user, {"admin", "librarian"}) THEN "forbidden"
  ELSE IF ~BookExists(bid) THEN "not_found"
  ELSE "ok"

\* BookIn carries descriptive fields only: no kept column changes, and
\* the book is mirrored again with its current counters.
UpdateBook(user, bid, outcome) ==
  /\ UNCHANGED <<books, copies, readers, borrows, fines, payments, due>>
  /\ IF UpdateBookError(user, bid) # "ok"
     THEN UNCHANGED index
     ELSE index' = UpsertBook(index, bid, books[bid], outcome)

DeleteBookError(user, bid) ==
  IF ~RequireRole(user, {"admin"}) THEN "forbidden"
  ELSE IF ~BookExists(bid) THEN "not_found"
  ELSE IF \E c \in DOMAIN copies : copies[c].alive /\ copies[c].book_id = bid
       THEN "has_copies"
  ELSE IF BookReferenced(bid) THEN "commit_failed"
  ELSE "ok"

DeleteBook(user, bid, outcome) ==
  /\ UNCHANGED <<copies, readers, borrows, fines, payments, due>>
  /\ IF DeleteBookError(user, bid) # "ok"
     THEN UNCHANGED <<books, index>>
     ELSE /\ books' = [books EXCEPT ![bid] = NoBook]
          /\ index' = IndexDeleteBook(index, bid, outcome)

\* ---------------------------------------------------------------- copies
\* The barcode column is not kept: barcode_taken is the outcome of the
\* uniqueness lookup on the request's barcode.
CreateCopyError(user, book_id, barcode_taken) ==
  IF ~RequireRole(user, {"admin", "librarian"}) THEN "forbidden"
  ELSE IF ~BookExists(book_id) THEN "book_missing"
  ELSE IF barcode_taken THEN "barcode_exists"
  ELSE "ok"

CreateCopy(user, book_id, barcode_taken, status, outcome) ==
  /\ UNCHANGED <<readers, borrows, fines, payments, due>>
  /\ IF CreateCopyError(user, book_id, barcode_taken) # "ok"
     THEN UNCHANGED <<books, copies, index>>
     ELSE /\ copies' = Append(copies,
               [alive |-> TRUE, book_id |-> book_id, status |-> status])
          /\ books' = [books EXCEPT
               ![book_id].total_copies = @ + 1,
               ![book_id].available_copies =
                  IF status = "available" THEN @ + 1 ELSE @]
          /\ index' = UpsertBook(index, book_id, books'[book_id], outcome)

\* update_copy that leaves the counter alone.
AvailableUnadjusted(avail, old_status, new_status) == avail

\* The counter is adjusted on the book the copy belonged to before the
\* request's fields were applied (b is read through the old c.book_id).
AvailableAfterUpdate(avail, old_status, new_status) ==
  IF old_status # new_status
  THEN (IF old_status = "available" THEN avail - 1 ELSE avail)
       + (IF new_status = "available" THEN 1 ELSE 0)
  ELSE avail

\* The commit fails on a book_id no book row has (foreign key) and on a
\* barcode another copy has (unique index).
UpdateCopyError(user, cid, book_id, barcode_taken) ==
  IF ~RequireRole(user, {"admin", "librarian"}) THEN "forbidden"
  ELSE IF ~CopyExists(cid) THEN "not_found"
  ELSE IF ~BookExists(book_id) \/ barcode_taken THEN "commit_failed"
  ELSE "ok"

\* The book mirrored is b, the one the copy belonged to.
UpdateCopy(user, cid, book_id, barcode_taken, status, outcome) ==
  /\ UNCHANGED <<readers, borrows, fines, payments, due>>
  /\ IF UpdateCopyError(user, cid, book_id, barcode_taken) # "ok"
     THEN UNCHANGED <<books, copies, index>>
     ELSE LET c == copies[cid]
              avail == AvailableAfterUpdate(books[c.book_id].available_copies,
                                            c.status, status)
          IN /\ copies' = [copies EXCEPT ![cid].book_id = book_id,
                                         ![cid].status = status]
             /\ books' = [books EXCEPT ![c.book_id].available_copies = avail]
             /\ index' = UpsertBook(index, c.book_id, books'[c.book_id],
                                    outcome)

DeleteCopyError(user, cid) ==
  IF ~RequireRole(user, {"admin"}) THEN "forbidden"
  ELSE IF ~CopyExists(cid) THEN "not_found"
  ELSE IF copies[cid].status = "borrowed" THEN "on_loan"
  ELSE IF CopyReferenced(cid) THEN "commit_failed"
  ELSE "ok"

DeleteCopy(user, cid, outcome) ==
  /\ UNCHANGED <<readers, borrows, fines, payments, due>>
  /\ IF DeleteCopyError(user, cid) # "ok"
     THEN UNCHANGED <<books, copies, index>>
     ELSE LET c == copies[cid]
          IN /\ books' = [books EXCEPT
                  ![c.book_id].total_copies = @ - 1,
                  ![c.book_id].available_copies =
                     IF c.status = "available" THEN @ - 1 ELSE @]
             /\ copies' = [copies EXCEPT ![cid] = NoCopy]
             /\ index' = UpsertBook(index, c.book_id, books'[c.book_id],
                                    outcome)

\* ---------------------------------------------------------------- borrow
Max(a, b) == IF a > b THEN a ELSE b

\* The request's reader_id taken for every caller.
ReaderAsSupplied(user, reader_id_in) == reader_id_in

\* reader_id = data.reader_id, replaced by the token's for a reader caller.
ActingReader(user, reader_id_in) ==
  IF user.role = "reader" THEN user.reader_id ELSE reader_id_in

\* borrow with the fine check ahead of the limit check.
BorrowErrorFineFirst(user, reader_id_in, copy_id) ==
  LET reader_id == ActingReader(user, reader_id_in) IN
  IF user.role = "reader" /\ user.reader_id = 0 THEN "reader_not_bound"
  ELSE IF reader_id = 0 THEN "missing_reader_id"
  ELSE IF ~ReaderExists(reader_id) \/ readers[reader_id].status # "active"
       THEN "reader_missing_or_blocked"
  ELSE IF readers[reader_id].fine_balance > 0 THEN "unpaid_fines"
  ELSE IF readers[reader_id].borrowed_count
            >= Categories[readers[reader_id].category_id].max_borrow_count
       THEN "max_borrow_reached"
  ELSE IF ~CopyExists(copy_id) \/ copies[copy_id].status # "available"
       THEN "copy_unavailable"
  ELSE IF \/ ~BookExists(copies[copy_id].book_id)
          \/ books[copies[copy_id].book_id].available_copies <= 0
       THEN "no_stock"
  ELSE "ok"

\* borrow without the check of the category limit.
BorrowErrorNoLimit(user, reader_id_in, copy_id) ==
  LET reader_id == ActingReader(user, reader_id_in) IN
  IF user.role = "reader" /\ user.reader_id = 0 THEN "reader_not_bound"
  ELSE IF reader_id = 0 THEN "missing_reader_id"
  ELSE IF ~ReaderExists(reader_id) \/ readers[reader_id].status # "active"
       THEN "reader_missing_or_blocked"
  ELSE IF readers[reader_id].fine_balance > 0 THEN "unpaid_fines"
  ELSE IF ~CopyExists(copy_id) \/ copies[copy_id].status # "available"
       THEN "copy_unavailable"
  ELSE IF \/ ~BookExists(copies[copy_id].book_id)
          \/ books[copies[copy_id].book_id].available_copies <= 0
       THEN "no_stock"
  ELSE "ok"

\* The HTTPException borrow raises, "ok" when it raises none.
BorrowError(user, reader_id_in, copy_id) ==
  LET reader_id == ActingReader(user, reader_id_in) IN
  IF user.role = "reader" /\ user.reader_id = 0 THEN "reader_not_bound"
  ELSE IF reader_id = 0 THEN "missing_reader_id"
  ELSE IF ~ReaderExists(reader_id) \/ readers[reader_id].status # "active"
       THEN "reader_missing_or_blocked"
  ELSE IF readers[reader_id].borrowed_count
            >= Categories[readers[reader_id].category_id].max_borrow_count
       THEN "max_borrow_reached"
  ELSE IF readers[reader_id].fine_balance > 0 THEN "unpaid_fines"
  ELSE IF ~CopyExists(copy_id) \/ copies[copy_id].status # "available"
       THEN "copy_unavailable"
  ELSE IF \/ ~BookExists(copies[copy_id].book_id)
          \/ books[copies[copy_id].book_id].available_copies <= 0
       THEN "no_stock"
  ELSE "ok"

AvailableKept(n) == n

AvailableAfterBorrow(n) == n - 1

Borrow(user, reader_id_in, copy_id) ==
  /\ UNCHANGED <<fines, payments>>
  /\ IF BorrowError(user, reader_id_in, copy_id) # "ok"
     THEN UNCHANGED <<books, copies, readers, borrows, due>>
     ELSE LET reader_id == ActingReader(user, reader_id_in)
              cat == Categories[readers[reader_id].category_id]
              book_id == copies[copy_id].book_id
          IN /\ borrows' = Append(borrows,
                  [reader_id |-> reader_id, copy_id |-> copy_id,
                   book_id |-> book_id,
                   returned |-> FALSE, status |-> "borrowed",
                   overdue_days |-> 0, is_damaged |-> FALSE,
                   fine_amount |-> 0, fine_status |-> "none"])
             /\ due' = [i \in DOMAIN due \cup {Len(borrows) + 1} |->
                  IF i \in DOMAIN due THEN due[i]
                  ELSE Now + cat.max_borrow_days * TicksPerDay]
             /\ copies' = [copies EXCEPT ![copy_id].status = "borrowed"]
             /\ books' = [books EXCEPT ![book_id].available_copies =
                  AvailableAfterBorrow(@)]
             /\ readers' = [readers EXCEPT ![reader_id].borrowed_count = @ + 1]

\* ---------------------------------------------------------------- return
ReturnError(user, borrow_id) ==
  IF borrow_id \notin DOMAIN borrows \/ borrows[borrow_id].status # "borrowed"
  THEN "not_open"
  ELSE IF user.role = "reader" /\ user.reader_id # borrows[borrow_id].reader_id
       THEN "forbidden"
  ELSE IF \/ ~ReaderExists(borrows[borrow_id].reader_id)
          \/ ~CopyExists(borrows[borrow_id].copy_id)
          \/ ~BookExists(borrows[borrow_id].book_id)
       THEN "inconsistent"
  ELSE "ok"

\* Any started day counted as a day.
OverdueDaysRoundedUp(due_time, t) ==
  IF t > due_time
  THEN Max(0, (t - due_time + TicksPerDay - 1) \div TicksPerDay) ELSE 0

\* max(0, (now - due_time).days), computed only when now > due_time
OverdueDays(due_time, t) ==
  IF t > due_time THEN Max(0, (t - due_time) \div TicksPerDay) ELSE 0

\* The daily rate charged once, whatever the number of days.
AssessedFineFlat(overdue_days, fine_per_day, is_damaged) ==
  (IF overdue_days > 0 THEN fine_per_day ELSE 0)
  + (IF is_damaged THEN DamageFine ELSE 0)

AssessedFine(overdue_days, fine_per_day, is_damaged) ==
  (IF overdue_days > 0 THEN overdue_days * fine_per_day ELSE 0)
  + (IF is_damaged THEN DamageFine ELSE 0)

\* The overdue label kept when the copy is also damaged.
ReturnStatusOverdueFirst(overdue_days, is_damaged) ==
  IF overdue_days > 0 THEN "overdue_returned"
  ELSE IF is_damaged THEN "damaged_returned"
  ELSE "returned"

ReturnStatus(overdue_days, is_damaged) ==
  IF is_damaged THEN "damaged_returned"
  ELSE IF overdue_days > 0 THEN "overdue_returned"
  ELSE "returned"

BorrowedCountKept(n) == n

BorrowedCountAfterReturn(n) == Max(0, n - 1)

ReturnBook(user, borrow_id, is_damaged) ==
  /\ UNCHANGED <<payments>>
  /\ IF ReturnError(user, borrow_id) # "ok"
     THEN UNCHANGED <<books, copies, readers, borrows, fines, due>>
     ELSE LET br == borrows[borrow_id]
              r == readers[br.reader_id]
              cat == Categories[r.category_id]
              overdue_days == OverdueDays(due[borrow_id], Now)
              fine == AssessedFine(overdue_days, cat.fine_per_day, is_damaged)
          IN /\ borrows' = [borrows EXCEPT ![borrow_id] =
                  [br EXCEPT !.returned = TRUE,
                             !.is_damaged = is_damaged,
                             !.overdue_days = overdue_days,
                             !.status = ReturnStatus(overdue_days, is_damaged),
                             !.fine_amount = fine,
                             !.fine_status =
                                IF fine > 0 THEN "unpaid" ELSE "none"]]
             /\ due' = [i \in DOMAIN due \ {borrow_id} |-> due[i]]
             /\ copies' = [copies EXCEPT ![br.copy_id].status =
                  IF @ = "borrowed" THEN "available" ELSE @]
             /\ books' = [books EXCEPT ![br.book_id].available_copies = @ + 1]
             /\ readers' = [readers EXCEPT
                  ![br.reader_id].borrowed_count = BorrowedCountAfterReturn(@),
                  ![br.reader_id].fine_balance = @ + fine,
                  ![br.reader_id].fine_total_history = @ + fine]
             /\ fines' = IF fine > 0
                  THEN Append(fines,
                         [reader_id |-> br.reader_id, borrow_id |-> borrow_id,
                          reason |-> IF overdue_days > 0 THEN "overdue"
                                                         ELSE "damage",
                          amount |-> fine, status |-> "unpaid"])
                  ELSE fines

\* ------------------------------------------------------------------- pay
\* pay_fine without the status check.
PayErrorAnyStatus(user, fine_id) ==
  IF fine_id \notin DOMAIN fines THEN "not_unpaid"
  ELSE IF user.role = "reader" /\ user.reader_id # fines[fine_id].reader_id
       THEN "forbidden"
  ELSE IF ~ReaderExists(fines[fine_id].reader_id) THEN "reader_missing"
  ELSE "ok"

PayError(user, fine_id) ==
  IF fine_id \notin DOMAIN fines \/ fines[fine_id].status # "unpaid"
  THEN "not_unpaid"
  ELSE IF user.role = "reader" /\ user.reader_id # fines[fine_id].reader_id
       THEN "forbidden"
  ELSE IF ~ReaderExists(fines[fine_id].reader_id) THEN "reader_missing"
  ELSE "ok"

MethodAsGiven(method) == method

NormalizeMethod(method) == IF method \in PayMethods THEN method ELSE "other"

BalanceKept(balance, amount) == balance

BalanceAfterPay(balance, amount) == Max(0, balance - amount)

PayFine(user, fine_id, method) ==
  /\ UNCHANGED <<books, copies, due>>
  /\ IF PayError(user, fine_id) # "ok"
     THEN UNCHANGED <<readers, borrows, fines, payments>>
     ELSE LET fr == fines[fine_id]
          IN /\ payments' = Append(payments,
                  [reader_id |-> fr.reader_id, fine_id |-> fine_id,
                   amount |-> fr.amount, method |-> NormalizeMethod(method)])
             /\ fines' = [fines EXCEPT ![fine_id].status = "paid"]
             /\ readers' = [readers EXCEPT ![fr.reader_id].fine_balance =
                  BalanceAfterPay(@, fr.amount)]
             /\ borrows' = IF fr.borrow_id \in DOMAIN borrows
                  THEN [borrows EXCEPT ![fr.borrow_id].fine_status = "paid"]
                  ELSE borrows

\* ------------------------------------------------ handlers in flight
\* The lifecycle handlers as two steps of one worker.  The engine is built
\* without an isolation level and the handlers read with plain SELECTs, so
\* a handler reads the rows as committed when it starts, decides on them,
\* and at db.commit() flushes one UPDATE per changed row that SETs the
\* values it computed from what it read, and its INSERTs.  The store makes
\* each flush-and-commit atomic; it does not fail the second writer of a
\* row.  An attribute assigned the value it was loaded with is not part of
\* the UPDATE.
Written(current, loaded, new) == IF new = loaded THEN current ELSE new

BorrowRead(p, user, reader_id_in, copy_id) ==
  /\ sessions[p] = Idle
  /\ UNCHANGED <<books, copies, readers, borrows, fines, payments, due>>
  /\ IF BorrowError(user, reader_id_in, copy_id) # "ok"
     THEN UNCHANGED sessions
     ELSE LET reader_id == ActingReader(user, reader_id_in)
              book_id == copies[copy_id].book_id
          IN sessions' = [sessions EXCEPT ![p] =
               [op |-> "borrow", reader_id |-> reader_id,
                copy_id |-> copy_id, book_id |-> book_id,
                max_borrow_days |->
                  Categories[readers[reader_id].category_id].max_borrow_days,
                available_copies |-> books[book_id].available_copies,
                borrowed_count |-> readers[reader_id].borrowed_count]]

BorrowCommit(p) ==
  /\ sessions[p].op = "borrow"
  /\ UNCHANGED <<fines, payments>>
  /\ LET t == sessions[p]
     IN /\ borrows' = Append(borrows,
             [reader_id |-> t.reader_id, copy_id |-> t.copy_id,
              book_id |-> t.book_id,
              returned |-> FALSE, status |-> "borrowed",
              overdue_days |-> 0, is_damaged |-> FALSE,
              fine_amount |-> 0, fine_status |-> "none"])
        /\ due' = [i \in DOMAIN due \cup {Len(borrows) + 1} |->
             IF i \in DOMAIN due THEN due[i]
             ELSE Now + t.max_borrow_days * TicksPerDay]
        /\ copies' = [copies EXCEPT ![t.copy_id].status = "borrowed"]
        /\ books' = [books EXCEPT ![t.book_id].available_copies =
             AvailableAfterBorrow(t.available_copies)]
        /\ readers' = [readers EXCEPT ![t.reader_id].borrowed_count =
             t.borrowed_count + 1]
  /\ sessions' = [sessions EXCEPT ![p] = Idle]

\* An open record holds the column defaults in every field return_book
\* assigns, so those are the loaded values.
ReturnRead(p, user, borrow_id, is_damaged) ==
  /\ sessions[p] = Idle
  /\ UNCHANGED <<books, copies, readers, borrows, fines, payments, due>>
  /\ IF ReturnError(user, borrow_id) # "ok"
     THEN UNCHANGED sessions
     ELSE LET br == borrows[borrow_id]
              r == readers[br.reader_id]
              overdue_days == OverdueDays(due[borrow_id], Now)
          IN sessions' = [sessions EXCEPT ![p] =
               [op |-> "return", borrow_id |-> borrow_id,
                reader_id |-> br.reader_id, copy_id |-> br.copy_id,
                book_id |-> br.book_id, is_damaged |-> is_damaged,
                overdue_days |-> overdue_days,
                fine |-> AssessedFine(overdue_days,
                           Categories[r.category_id].fine_per_day, is_damaged),
                copy_status |-> copies[br.copy_id].status,
                available_copies |-> books[br.book_id].available_copies,
                borrowed_count |-> r.borrowed_count,
                fine_balance |-> r.fine_balance,
                fine_total_history |-> r.fine_total_history]]

ReturnCommit(p) ==
  /\ sessions[p].op = "return"
  /\ UNCHANGED <<payments>>
  /\ LET t == sessions[p]
         br == borrows[t.borrow_id]
     IN /\ borrows' = [borrows EXCEPT ![t.borrow_id] =
             [br EXCEPT
                !.returned = TRUE,
                !.is_damaged = Written(@, FALSE, t.is_damaged),
                !.overdue_days = Written(@, 0, t.overdue_days),
                !.status = ReturnStatus(t.overdue_days, t.is_damaged),
                !.fine_amount = Written(@, 0, t.fine),
                !.fine_status =
                   Written(@, "none", IF t.fine > 0 THEN "unpaid" ELSE "none")]]
        /\ due' = [i \in DOMAIN due \ {t.borrow_id} |-> due[i]]
        /\ copies' = [copies EXCEPT ![t.copy_id].status =
             IF t.copy_status = "borrowed" THEN "available" ELSE @]
        /\ books' = [books EXCEPT ![t.book_id].available_copies =
             t.available_copies + 1]
        /\ readers' = [readers EXCEPT
             ![t.reader_id].borrowed_count =
                Written(@, t.borrowed_count,
                        BorrowedCountAfterReturn(t.borrowed_count)),
             ![t.reader_id].fine_balance =
                Written(@, t.fine_balance, t.fine_balance + t.fine),
             ![t.reader_id].fine_total_history =
                Written(@, t.fine_total_history,
                        t.fine_total_history + t.fine)]
        /\ fines' = IF t.fine > 0
             THEN Append(fines,
                    [reader_id |-> t.reader_id, borrow_id |-> t.borrow_id,
                     reason |-> IF t.overdue_days > 0 THEN "overdue"
                                                      ELSE "damage",
                     amount |-> t.fine, status |-> "unpaid"])
             ELSE fines
  /\ sessions' = [sessions EXCEPT ![p] = Idle]

PayRead(p, user, fine_id, method) ==
  /\ sessions[p] = Idle
  /\ UNCHANGED <<books, copies, readers, borrows, fines, payments, due>>
  /\ IF PayError(user, fine_id) # "ok"
     THEN UNCHANGED sessions
     ELSE LET fr == fines[fine_id]
          IN sessions' = [sessions EXCEPT ![p] =
               [op |-> "pay", fine_id |-> fine_id,
                reader_id |-> fr.reader_id, borrow_id |-> fr.borrow_id,
                amount |-> fr.amount, method |-> NormalizeMethod(method),
                fine_balance |-> readers[fr.reader_id].fine_balance,
                fine_status |-> borrows[fr.borrow_id].fine_status]]

PayCommit(p) ==
  /\ sessions[p].op = "pay"
  /\ UNCHANGED <<books, copies, due>>
  /\ LET t == sessions[p]
     IN /\ payments' = Append(payments,
             [reader_id |-> t.reader_id, fine_id |-> t.fine_id,
              amount |-> t.amount, method |-> t.method])
        /\ fines' = [fines EXCEPT ![t.fine_id].status = "paid"]
        /\ readers' = [readers EXCEPT ![t.reader_id].fine_balance =
             Written(@, t.fine_balance,
                     BalanceAfterPay(t.fine_balance, t.amount))]
        /\ borrows' = [borrows EXCEPT ![t.borrow_id].fine_status =
             Written(@, t.fine_status, "paid")]
  /\ sessions' = [sessions EXCEPT ![p] = Idle]

\* ------------------------------------------------------- request inputs
\* Keys range over the rows ever inserted (a deleted row's key is the
\* "not found" case); 0 is a key no table holds and, for borrow's optional
\* reader_id, the absent field.
ReaderIds == 1..Len(readers)
BookIds == 1..Len(books)
CopyIds == 1..Len(copies)
MethodInputs == {"cash", "paypal"}
CopyStatusInputs == {"available", "borrowed", "lost"}

\* The API calls.  edits counts the administrative edit requests
\* (update_reader, update_copy) issued so far.  A request that inserts a
\* row is issued while its table holds fewer keys than the bound, an edit
\* while fewer than max_edits were.  outcomes are the outcomes a mirror
\* call can have in the deployment.
Calls(max_books, max_copies, max_readers, max_borrows, max_edits, outcomes) ==
  \/ /\ Len(readers) < max_readers
     /\ \E k \in 0..Len(Categories) : RegisterReader(k)
     /\ UNCHANGED <<edits, index, sessions>>
  \/ /\ edits < max_edits
     /\ \E u \in Callers, r \in ReaderIds, k \in DOMAIN Categories,
           s \in ReaderStatus : UpdateReader(u, r, k, s)
     /\ edits' = edits + 1
     /\ UNCHANGED <<index, sessions>>
  \/ /\ \E u \in Callers, r \in ReaderIds : DeleteReader(u, r)
     /\ UNCHANGED <<edits, index, sessions>>
  \/ /\ Len(books) < max_books
     /\ \E u \in Callers, o \in outcomes : CreateBook(u, o)
     /\ UNCHANGED <<edits, sessions>>
  \/ /\ \E u \in Callers, b \in BookIds, o \in outcomes : UpdateBook(u, b, o)
     /\ UNCHANGED <<edits, sessions>>
  \/ /\ \E u \in Callers, b \in BookIds, o \in outcomes : DeleteBook(u, b, o)
     /\ UNCHANGED <<edits, sessions>>
  \/ /\ Len(copies) < max_copies
     /\ \E u \in Callers, b \in BookIds, bc \in BOOLEAN,
           s \in CopyStatusInputs, o \in outcomes : CreateCopy(u, b, bc, s, o)
     /\ UNCHANGED <<edits, sessions>>
  \/ /\ edits < max_edits
     /\ \E u \in Callers, c \in CopyIds, b \in BookIds, bc \in BOOLEAN,
           s \in CopyStatusInputs, o \in outcomes :
           UpdateCopy(u, c, b, bc, s, o)
     /\ edits' = edits + 1
     /\ UNCHANGED sessions
  \/ /\ \E u \in Callers, c \in CopyIds, o \in outcomes : DeleteCopy(u, c, o)
     /\ UNCHANGED <<edits, sessions>>
  \/ /\ Len(borrows) < max_borrows
     /\ \E u \in Callers, r \in 0..Len(readers), c \in 0..Len(copies) :
           Borrow(u, r, c)
     /\ UNCHANGED <<edits, index, sessions>>
  \/ /\ \E u \in Callers, i \in 0..Len(borrows), d \in BOOLEAN :
           ReturnBook(u, i, d)
     /\ UNCHANGED <<edits, index, sessions>>
  \/ /\ \E u \in Callers, f \in 0..Len(fines), m \in MethodInputs :
           PayFine(u, f, m)
     /\ UNCHANGED <<edits, index, sessions>>

\* The deployment of the default settings: no index is configured.
NoMirror == {"off"}

Next ==
  \/ Tick /\ UNCHANGED <<edits, index, sessions>>
  \/ Calls(MaxBooks, MaxCopies, MaxReaders, MaxBorrows, MaxEdits, NoMirror)

Spec == Init /\ [][Next]_vars

\* All calls arrive within one tick of the clock, on a catalog of up to
\* SameDayBooks books.
NextSameDay ==
  Calls(SameDayBooks, SameDayCopies, SameDayReaders, SameDayBorrows,
        SameDayEdits, NoMirror)

SpecSameDay == Init /\ [][NextSameDay]_vars

\* All calls arrive within one tick of the clock, from up to PairReaders
\* registered readers.
NextPair ==
  Calls(PairBooks, PairCopies, PairReaders, PairBorrows, PairEdits, NoMirror)

SpecPair == Init /\ [][NextPair]_vars

\* A deployment with the search index configured: all calls arrive within
\* one tick of the clock.
NextMirror ==
  Calls(MirrorBooks, MirrorCopies, MirrorReaders, MirrorBorrows, MirrorEdits,
        MirrorOutcomes)

SpecMirror == Init /\ [][NextMirror]_vars

\* Lifecycle handlers running in MaxSessions workers at once, all within
\* one tick of the clock.  Readers register and staff add books and copies
\* while no lifecycle handler is in flight, so that the handlers in flight
\* together are lifecycle handlers only.
Pending(op) == Cardinality({p \in Procs : sessions[p].op = op})

Quiet == \A p \in Procs : sessions[p] = Idle

NextConcurrent ==
  \/ /\ Len(readers) < ConcReaders /\ Quiet
     /\ \E k \in DOMAIN Categories : RegisterReader(k)
     /\ UNCHANGED <<edits, index, sessions>>
  \/ /\ Len(books) < ConcBooks /\ Quiet
     /\ \E u \in Staff : CreateBook(u, "off")
     /\ UNCHANGED <<edits, sessions>>
  \/ /\ Len(copies) < ConcCopies /\ Quiet
     /\ \E u \in Staff, b \in BookIds : CreateCopy(u, b, FALSE, "available", "off")
     /\ UNCHANGED <<edits, sessions>>
  \/ /\ Len(borrows) + Pending("borrow") < ConcBorrows
     /\ \E p \in Procs, u \in Callers, r \in 0..Len(readers),
           c \in 0..Len(copies) : BorrowRead(p, u, r, c)
     /\ UNCHANGED <<edits, index>>
  \/ /\ \E p \in Procs : BorrowCommit(p)
     /\ UNCHANGED <<edits, index>>
  \/ /\ \E p \in Procs, u \in Callers, i \in 0..Len(borrows), d \in BOOLEAN :
           ReturnRead(p, u, i, d)
     /\ UNCHANGED <<edits, index>>
  \/ /\ \E p \in Procs : ReturnCommit(p)
     /\ UNCHANGED <<edits, index>>
  \/ /\ \E p \in Procs, u \in Callers, f \in 0..Len(fines) :
           PayRead(p, u, f, "cash")
     /\ UNCHANGED <<edits, index>>
  \/ /\ \E p \in Procs : PayCommit(p)
     /\ UNCHANGED <<edits, index>>

SpecConcurrent == Init /\ [][NextConcurrent]_vars

\* ======================================================== properties

\* What the counters are compared with: sums and counts over the rows.
RECURSIVE UnpaidSum(_, _)
UnpaidSum(rid, n) ==
  IF n = 0 THEN 0
  ELSE UnpaidSum(rid, n - 1)
       + (IF fines[n].reader_id = rid /\ fines[n].status = "unpaid"
          THEN fines[n].amount ELSE 0)

AvailableCount(bid) ==
  Cardinality({c \in DOMAIN copies :
                 copies[c].alive /\ copies[c].book_id = bid
                 /\ copies[c].status = "available"})

OpenBorrows(rid) ==
  Cardinality({i \in DOMAIN borrows :
                 borrows[i].reader_id = rid /\ borrows[i].status = "borrowed"})

UnpaidAmount(rid) == UnpaidSum(rid, Len(fines))

\* C1: every book's available_copies equals the number of its BookCopy
\* rows whose status is "available".
AvailableCopiesMatchesRows ==
  \A b \in DOMAIN books :
    books[b].alive => books[b].available_copies = AvailableCount(b)

\* C2: every reader's fine_balance equals the sum of the amounts of the
\* reader's FineRecord rows whose status is "unpaid".
FineBalanceMatchesUnpaid ==
  \A r \in DOMAIN readers :
    readers[r].alive => readers[r].fine_balance = UnpaidAmount(r)

\* A reader who owes one fine after having paid another.
FineBalanceWitness ==
  \E r \in DOMAIN readers :
    /\ readers[r].alive /\ readers[r].fine_balance > 0
    /\ \E i, j \in DOMAIN fines :
         /\ fines[i].reader_id = r /\ fines[i].status = "paid"
         /\ fines[j].reader_id = r /\ fines[j].status = "unpaid"

\* C3: every reader's borrowed_count equals the number of the reader's
\* BorrowRecord rows whose status is "borrowed".
BorrowedCountMatchesOpen ==
  \A r \in DOMAIN readers :
    readers[r].alive => readers[r].borrowed_count = OpenBorrows(r)

\* A reader who has returned one borrow and still holds another.
BorrowedCountWitness ==
  \E r \in DOMAIN readers :
    /\ readers[r].alive /\ readers[r].borrowed_count = 1
    /\ \E i, j \in DOMAIN borrows :
         /\ borrows[i].reader_id = r /\ borrows[i].status = "borrowed"
         /\ borrows[j].reader_id = r /\ borrows[j].status # "borrowed"

\* C4: every book has 0 <= available_copies <= total_copies.
AvailableWithinTotal ==
  \A b \in DOMAIN books :
    books[b].alive =>
      /\ 0 <= books[b].available_copies
      /\ books[b].available_copies <= books[b].total_copies

\* C5: a borrow call that succeeds lowers the owning book's
\* available_copies by exactly one, raises the reader's borrowed_count by
\* exactly one, leaves the copy "borrowed" and adds one BorrowRecord with
\* status "borrowed"; a borrow call that fails changes none of them.
\* (A step that changes none of the four is no successful borrow, which
\* inserts a row, and meets the failing case as it stands.)
BorrowAllOrNothing ==
  [][\/ UNCHANGED <<books, copies, readers, borrows>>
     \/ \A u \in Callers, r \in 0..Len(readers), c \in 0..Len(copies) :
       Borrow(u, r, c) =>
         IF BorrowError(u, r, c) = "ok"
         THEN LET rid == ActingReader(u, r)
                  bid == copies[c].book_id
              IN /\ books'[bid].available_copies
                      = books[bid].available_copies - 1
                 /\ readers'[rid].borrowed_count
                      = readers[rid].borrowed_count + 1
                 /\ copies'[c].status = "borrowed"
                 /\ Len(borrows') = Len(borrows) + 1
                 /\ SubSeq(borrows', 1, Len(borrows)) = borrows
                 /\ borrows'[Len(borrows')].status = "borrowed"
                 /\ borrows'[Len(borrows')].reader_id = rid
                 /\ borrows'[Len(borrows')].copy_id = c
         ELSE UNCHANGED <<books, copies, readers, borrows>>]_vars

\* A borrow has succeeded, and the borrower is now at the category limit,
\* so that a further borrow call fails.
BorrowWitness ==
  \E i \in DOMAIN borrows :
    /\ borrows[i].status = "borrowed"
    /\ copies[borrows[i].copy_id].status = "borrowed"
    /\ BorrowError([role |-> "reader", reader_id |-> borrows[i].reader_id],
                   0, borrows[i].copy_id) = "max_borrow_reached"

\* The six preconditions of borrow in the order the specification gives
\* them, and the errors each check raises.
FirstFailedCheck(user, reader_id_in, copy_id) ==
  LET rid == IF user.role = "reader" THEN user.reader_id ELSE reader_id_in IN
  IF rid = 0 THEN 1
  ELSE IF ~(ReaderExists(rid) /\ readers[rid].status = "active") THEN 2
  ELSE IF ~(readers[rid].borrowed_count
              < Categories[readers[rid].category_id].max_borrow_count) THEN 3
  ELSE IF ~(readers[rid].fine_balance = 0) THEN 4
  ELSE IF ~(CopyExists(copy_id) /\ copies[copy_id].status = "available") THEN 5
  ELSE IF ~(books[copies[copy_id].book_id].available_copies > 0) THEN 6
  ELSE 0

CheckErrors ==
  <<{"reader_not_bound", "missing_reader_id"}, {"reader_missing_or_blocked"},
    {"max_borrow_reached"}, {"unpaid_fines"}, {"copy_unavailable"},
    {"no_stock"}>>

\* C6: borrow reports the error of the earliest failing precondition, in
\* the order acting reader, reader active, borrow limit, fine balance,
\* copy available, book stock; no two checks share an error.
BorrowChecksInOrder ==
  \A u \in Callers, r \in 0..Len(readers), c \in 0..Len(copies) :
    LET k == FirstFailedCheck(u, r, c)
        e == BorrowError(u, r, c)
    IN IF k = 0 THEN e = "ok"
       ELSE /\ e \in CheckErrors[k]
            /\ \A j \in DOMAIN CheckErrors : j # k => e \notin CheckErrors[j]

\* A reader at the borrow limit (check 3 fails) while one copy is lent
\* (check 5 fails for it) and another is available in a book whose
\* available_copies is 0 (check 6 fails for it).
BorrowChecksWitness ==
  \E r \in DOMAIN readers, c1, c2 \in DOMAIN copies :
    /\ readers[r].alive /\ readers[r].status = "active"
    /\ readers[r].borrowed_count
         >= Categories[readers[r].category_id].max_borrow_count
    /\ copies[c1].alive /\ copies[c1].status = "borrowed"
    /\ copies[c2].alive /\ copies[c2].status = "available"
    /\ books[copies[c2].book_id].available_copies <= 0
    /\ \E u \in Staff : BorrowError(u, 0, c2) = "missing_reader_id"

\* Whole days by which the current instant exceeds the due time of the
\* open record i.
DaysLate(i) == IF Now > due[i] THEN (Now - due[i]) \div TicksPerDay ELSE 0

FinePerDay(i) == Categories[readers[borrows[i].reader_id].category_id].fine_per_day

FineTotal(i, is_damaged) ==
  DaysLate(i) * FinePerDay(i) + (IF is_damaged THEN DamageFine ELSE 0)

OneFineAdded(i, amount) ==
  /\ Len(fines') = Len(fines) + 1
  /\ SubSeq(fines', 1, Len(fines)) = fines
  /\ fines'[Len(fines')].amount = amount
  /\ fines'[Len(fines')].borrow_id = i
  /\ fines'[Len(fines')].reader_id = borrows[i].reader_id

\* C7 as stated: a return overdue by d > 0 whole days sets fine_amount to
\* d * f, plus 10 if damaged, and creates exactly one FineRecord of that
\* amount.
OverdueReturnAddsOneFine ==
  [][\/ borrows' = borrows
     \/ \A u \in Callers, i \in DOMAIN borrows, d \in BOOLEAN :
          (ReturnError(u, i) = "ok" /\ ReturnBook(u, i, d) /\ DaysLate(i) > 0)
            => /\ borrows'[i].fine_amount = FineTotal(i, d)
               /\ OneFineAdded(i, FineTotal(i, d))]_vars

\* C7 as amended: a return overdue by d > 0 whole days sets fine_amount to
\* d * f, plus 10 if damaged; it creates exactly one FineRecord of that
\* amount when the amount is positive, and none when it is 0 (f = 0 and
\* no damage).
OverdueReturnFine ==
  [][\/ borrows' = borrows
     \/ \A u \in Callers, i \in DOMAIN borrows, d \in BOOLEAN :
          (ReturnError(u, i) = "ok" /\ ReturnBook(u, i, d) /\ DaysLate(i) > 0)
            => /\ borrows'[i].fine_amount = FineTotal(i, d)
               /\ IF FineTotal(i, d) > 0
                  THEN OneFineAdded(i, FineTotal(i, d))
                  ELSE fines' = fines]_vars

\* A damaged copy came back two days late under the 0.50 rate (fine
\* 2 * 0.50 + 10), and a copy came back late under the zero rate.
OverdueReturnWitness ==
  /\ \E i \in DOMAIN borrows, f \in DOMAIN fines :
       /\ borrows[i].overdue_days = 2 /\ borrows[i].is_damaged
       /\ borrows[i].fine_amount = 2 * 50 + DamageFine
       /\ fines[f].borrow_id = i /\ fines[f].amount = borrows[i].fine_amount
  /\ \E j \in DOMAIN borrows :
       borrows[j].overdue_days > 0 /\ borrows[j].fine_amount = 0

\* C8: a return that is neither overdue (no whole day late) nor flagged
\* damaged ends with status "returned", fine_amount 0 and fine_status
\* "none", creates no FineRecord and leaves the reader's fine_balance and
\* fine_total_history unchanged.
CleanReturnNoFine ==
  [][\/ borrows' = borrows
     \/ \A u \in Callers, i \in DOMAIN borrows :
          (/\ ReturnError(u, i) = "ok"
           /\ ReturnBook(u, i, FALSE)
           /\ Now - due[i] < TicksPerDay)
            => LET r == borrows[i].reader_id
               IN /\ borrows'[i].status = "returned"
                  /\ borrows'[i].fine_amount = 0
                  /\ borrows'[i].fine_status = "none"
                  /\ fines' = fines
                  /\ readers'[r].fine_balance = readers[r].fine_balance
                  /\ readers'[r].fine_total_history
                       = readers[r].fine_total_history]_vars

\* A record returned clean by a reader who owes an earlier fine.
CleanReturnWitness ==
  \E i \in DOMAIN borrows :
    /\ borrows[i].status = "returned"
    /\ readers[borrows[i].reader_id].fine_balance > 0

ClosedRejected ==
  /\ \A u \in Callers, i \in DOMAIN borrows :
       borrows[i].status # "borrowed" => ReturnError(u, i) # "ok"
  /\ \A u \in Callers, f \in DOMAIN fines :
       fines[f].status # "unpaid" => PayError(u, f) # "ok"

AtMostOnePayment ==
  \A f \in DOMAIN fines :
    Cardinality({p \in DOMAIN payments : payments[p].fine_id = f}) <= 1

ClosedStayClosed ==
  /\ \A u \in Callers, i \in DOMAIN borrows, d \in BOOLEAN :
       (borrows[i].status # "borrowed" /\ ReturnBook(u, i, d))
         => UNCHANGED <<books, copies, readers, borrows, fines, payments>>
  /\ \A u \in Callers, f \in DOMAIN fines, m \in MethodInputs :
       (fines[f].status # "unpaid" /\ PayFine(u, f, m))
         => UNCHANGED <<books, copies, readers, borrows, fines, payments>>
  /\ \A i \in DOMAIN borrows :
       borrows[i].status # "borrowed" =>
         /\ borrows'[i].status = borrows[i].status
         /\ borrows'[i].returned = borrows[i].returned
         /\ borrows'[i].overdue_days = borrows[i].overdue_days
         /\ borrows'[i].fine_amount = borrows[i].fine_amount
  /\ \A f \in DOMAIN fines : fines[f].status = "paid" => fines'[f] = fines[f]
  /\ SubSeq(payments', 1, Len(payments)) = payments

\* C9: return_book on a record that is not "borrowed" and pay_fine on a
\* fine that is not "unpaid" are rejected and change nothing; a returned
\* record is never returned again and no fine has two PaymentRecords.
ReturnAndPayOnce ==
  /\ [](ClosedRejected /\ AtMostOnePayment)
  /\ [][UNCHANGED <<books, copies, readers, borrows, fines, payments>>
        \/ ClosedStayClosed]_vars

\* A fine has been paid for a record that has been returned, so that both
\* a second return and a second payment are possible requests.
ReturnAndPayWitness ==
  \E f \in DOMAIN fines, p \in DOMAIN payments :
    /\ fines[f].status = "paid" /\ payments[p].fine_id = f
    /\ borrows[fines[f].borrow_id].status # "borrowed"

\* C10: a successful pay_fine on the unpaid fine F adds one PaymentRecord
\* of F's amount whose method is one of the five methods (the given one,
\* or "other" for any other value), marks F paid, lowers the reader's
\* fine_balance by F's amount but not below 0, marks the BorrowRecord F
\* references paid, and changes nothing else.
PayFineEffect ==
  [][\/ payments' = payments
     \/ \A u \in Callers, f \in DOMAIN fines, m \in MethodInputs :
          (PayError(u, f) = "ok" /\ PayFine(u, f, m)) =>
            LET F == fines[f]
                r == F.reader_id
                p == payments'[Len(payments')]
            IN /\ Len(payments') = Len(payments) + 1
               /\ SubSeq(payments', 1, Len(payments)) = payments
               /\ p.amount = F.amount /\ p.fine_id = f /\ p.reader_id = r
               /\ p.method \in PayMethods
               /\ p.method = (IF m \in PayMethods THEN m ELSE "other")
               /\ fines' = [fines EXCEPT ![f].status = "paid"]
               /\ readers' = [readers EXCEPT ![r].fine_balance =
                    IF @ < F.amount THEN 0 ELSE @ - F.amount]
               /\ borrows' = [borrows EXCEPT
                    ![F.borrow_id].fine_status = "paid"]
               /\ UNCHANGED <<books, copies>>]_vars

\* A fine was paid with a method outside the list and one with "cash".
PayFineWitness ==
  \E p, q \in DOMAIN payments :
    /\ payments[p].method = "other" /\ payments[q].method = "cash"
    /\ fines[payments[p].fine_id].status = "paid"
    /\ borrows[fines[payments[p].fine_id].borrow_id].fine_status = "paid"

\* C11 as stated: a reader caller's borrow creates the BorrowRecord for the
\* token's reader_id whatever reader_id the request carries; return_book
\* and pay_fine by a reader caller on a record of another reader are
\* rejected with the permission error and change nothing; a staff caller
\* may return any open record and pay any unpaid fine, and borrows for the
\* reader the request names.
OwnBorrow ==
  /\ \A u \in ReaderTokens, r \in 0..Len(readers), c \in 0..Len(copies) :
       (Borrow(u, r, c) /\ Len(borrows') = Len(borrows) + 1)
         => borrows'[Len(borrows')].reader_id = u.reader_id
  /\ \A u \in Staff, r \in 0..Len(readers), c \in 0..Len(copies) :
       (Borrow(u, r, c) /\ Len(borrows') = Len(borrows) + 1)
         => borrows'[Len(borrows')].reader_id = r

ForeignUntouched ==
  /\ \A u \in ReaderTokens, i \in DOMAIN borrows, d \in BOOLEAN :
       (borrows[i].reader_id # u.reader_id /\ ReturnBook(u, i, d))
         => UNCHANGED <<books, copies, readers, borrows, fines, payments>>
  /\ \A u \in ReaderTokens, f \in DOMAIN fines, m \in MethodInputs :
       (fines[f].reader_id # u.reader_id /\ PayFine(u, f, m))
         => UNCHANGED <<books, copies, readers, borrows, fines, payments>>

StaffAllowed ==
  /\ \A u \in Staff, i \in DOMAIN borrows :
       borrows[i].status = "borrowed" => ReturnError(u, i) = "ok"
  /\ \A u \in Staff, f \in DOMAIN fines :
       fines[f].status = "unpaid" => PayError(u, f) = "ok"

ForeignForbiddenAlways ==
  /\ \A u \in ReaderTokens, i \in DOMAIN borrows :
       borrows[i].reader_id # u.reader_id => ReturnError(u, i) = "forbidden"
  /\ \A u \in ReaderTokens, f \in DOMAIN fines :
       fines[f].reader_id # u.reader_id => PayError(u, f) = "forbidden"

ReaderActsOnOwnOnly ==
  /\ [](ForeignForbiddenAlways /\ StaffAllowed)
  /\ [][\/ UNCHANGED <<books, copies, readers, borrows, fines, payments>>
        \/ OwnBorrow /\ ForeignUntouched]_vars

\* C11 as amended: as above, but the permission error is the answer only
\* for an open BorrowRecord / an unpaid FineRecord of another reader; on a
\* closed one the call is rejected with the error of the status check,
\* which comes first.
ForeignRejected ==
  /\ \A u \in ReaderTokens, i \in DOMAIN borrows :
       borrows[i].reader_id # u.reader_id =>
         ReturnError(u, i) = (IF borrows[i].status = "borrowed"
                              THEN "forbidden" ELSE "not_open")
  /\ \A u \in ReaderTokens, f \in DOMAIN fines :
       fines[f].reader_id # u.reader_id =>
         PayError(u, f) = (IF fines[f].status = "unpaid"
                           THEN "forbidden" ELSE "not_unpaid")

ReaderActsOnOwnOpenOnly ==
  /\ [](ForeignRejected /\ StaffAllowed)
  /\ [][\/ UNCHANGED <<books, copies, readers, borrows, fines, payments>>
        \/ OwnBorrow /\ ForeignUntouched]_vars

\* One reader has an open borrow, a closed record and the unpaid fine of
\* its return, while a second reader is registered.
ReaderActsWitness ==
  \E r1, r2 \in DOMAIN readers, i, j \in DOMAIN borrows, f \in DOMAIN fines :
    /\ r1 # r2 /\ readers[r1].alive /\ readers[r2].alive
    /\ borrows[i].reader_id = r1 /\ borrows[i].status = "borrowed"
    /\ borrows[j].reader_id = r1 /\ borrows[j].status # "borrowed"
    /\ fines[f].reader_id = r1 /\ fines[f].status = "unpaid"

\* C12: a catalog call whose transaction committed and whose mirror call
\* raised still answers with its success result, and its committed
\* changes stay: create_book, update_book, delete_book_api, create_copy,
\* update_copy and delete_copy.
MirrorFailureHidden ==
  [][/\ \A u \in Callers :
          (CreateBookError(u) = "ok" /\ CreateBook(u, "raised"))
            => /\ Response(CreateBookError(u), "raised") = "ok"
               /\ Len(books') = Len(books) + 1
     /\ \A u \in Callers, b \in BookIds :
          (UpdateBookError(u, b) = "ok" /\ UpdateBook(u, b, "raised"))
            => Response(UpdateBookError(u, b), "raised") = "ok"
     /\ \A u \in Callers, b \in BookIds :
          (DeleteBookError(u, b) = "ok" /\ DeleteBook(u, b, "raised"))
            => /\ Response(DeleteBookError(u, b), "raised") = "ok"
               /\ ~books'[b].alive
     /\ \A u \in Callers, b \in BookIds, s \in CopyStatusInputs :
          (CreateCopyError(u, b, FALSE) = "ok"
           /\ CreateCopy(u, b, FALSE, s, "raised"))
            => /\ Response(CreateCopyError(u, b, FALSE), "raised") = "ok"
               /\ Len(copies') = Len(copies) + 1
     /\ \A u \in Callers, c \in CopyIds, b \in BookIds,
           s \in CopyStatusInputs :
          (UpdateCopyError(u, c, b, FALSE) = "ok"
           /\ UpdateCopy(u, c, b, FALSE, s, "raised"))
            => /\ Response(UpdateCopyError(u, c, b, FALSE), "raised") = "ok"
               /\ copies'[c].status = s
     /\ \A u \in Callers, c \in CopyIds :
          (DeleteCopyError(u, c) = "ok" /\ DeleteCopy(u, c, "raised"))
            => /\ Response(DeleteCopyError(u, c), "raised") = "ok"
               /\ ~copies'[c].alive]_vars

\* No copy is the subject of two open BorrowRecords.
NoCopyLentTwice ==
  \A c \in DOMAIN copies :
    Cardinality({i \in DOMAIN borrows :
                   borrows[i].copy_id = c /\ borrows[i].status = "borrowed"}) <= 1

\* C13: whenever no handler is in flight, the state is one that the same
\* borrow / return_book / pay_fine calls run one after the other produce:
\* no decrement or increment of available_copies, borrowed_count or
\* fine_balance is lost (each counter equals the count or sum over the rows
\* it summarises, which every serial run of these calls keeps), no copy is
\* lent by two open records and no fine is paid twice.
ConcurrentAsSerial ==
  Quiet =>
    /\ AvailableCopiesMatchesRows
    /\ BorrowedCountMatchesOpen
    /\ FineBalanceMatchesUnpaid
    /\ NoCopyLentTwice
    /\ AtMostOnePayment

\* The change of available_copies the status transition calls for.
StatusDelta(old_status, new_status) ==
  IF old_status = "available" /\ new_status # "available" THEN -1
  ELSE IF old_status # "available" /\ new_status = "available" THEN 1
  ELSE 0

\* C14: a successful update_copy changes available_copies of the book the
\* copy belonged to by -1 when the status goes from "available" to another
\* status, by +1 when it goes from another status to "available" and by 0
\* otherwise, and changes no other counter; a successful delete_copy lowers
\* that book's total_copies by 1, and its available_copies by 1 exactly
\* when the copy was "available".
CopyCounterAdjusted ==
  [][\/ UNCHANGED <<books, copies>>
     \/ /\ \A u \in Callers, c \in CopyIds, b \in BookIds,
             s \in CopyStatusInputs, o \in MirrorOutcomes :
            (UpdateCopyError(u, c, b, FALSE) = "ok"
             /\ UpdateCopy(u, c, b, FALSE, s, o))
              => LET owner == copies[c].book_id
                 IN /\ books'[owner].available_copies
                         = books[owner].available_copies
                           + StatusDelta(copies[c].status, s)
                    /\ books'[owner].total_copies = books[owner].total_copies
                    /\ \A x \in DOMAIN books : x # owner => books'[x] = books[x]
        /\ \A u \in Callers, c \in CopyIds, o \in MirrorOutcomes :
            (DeleteCopyError(u, c) = "ok" /\ DeleteCopy(u, c, o))
              => LET owner == copies[c].book_id
                 IN /\ books'[owner].total_copies
                         = books[owner].total_copies - 1
                    /\ books'[owner].available_copies
                         = books[owner].available_copies
                           - (IF copies[c].status = "available" THEN 1 ELSE 0)
                    /\ \A x \in DOMAIN books : x # owner => books'[x] = books[x]]_vars

\* An edit has been made, a copy has been deleted, and a copy that no open
\* record lends is not "available" in a book whose available_copies is 0
\* and whose total_copies is 1.
CopyCounterWitness ==
  /\ edits = 1
  /\ \E c1, c2 \in DOMAIN copies :
       /\ ~copies[c1].alive
       /\ copies[c2].alive /\ copies[c2].status = "lost"
       /\ ~CopyReferenced(c2)
       /\ books[copies[c2].book_id].available_copies = 0
       /\ books[copies[c2].book_id].total_copies = 1

\* C15: delete_copy on a copy whose status is "borrowed" and
\* delete_book_api on a book that a BookCopy row references are rejected
\* with an error and leave every row and counter unchanged; delete_book_api
\* on a book without copies succeeds and removes the book.
DeleteRejected ==
  /\ \A u \in Callers, c \in CopyIds :
       (CopyExists(c) /\ copies[c].status = "borrowed")
         => DeleteCopyError(u, c) \in {"forbidden", "on_loan"}
  /\ \A u \in Callers, b \in BookIds :
       (BookExists(b)
        /\ \E c \in DOMAIN copies : copies[c].alive /\ copies[c].book_id = b)
         => DeleteBookError(u, b) \in {"forbidden", "has_copies"}
  /\ \A b \in BookIds :
       (BookExists(b)
        /\ ~\E c \in DOMAIN copies : copies[c].alive /\ copies[c].book_id = b)
         => DeleteBookError([role |-> "admin", reader_id |-> 0], b) = "ok"

DeleteGuarded ==
  /\ \A u \in Callers, c \in CopyIds, o \in MirrorOutcomes :
       (CopyExists(c) /\ copies[c].status = "borrowed" /\ DeleteCopy(u, c, o))
         => UNCHANGED <<books, copies, readers, borrows, fines, payments>>
  /\ \A u \in Callers, b \in BookIds, o \in MirrorOutcomes :
       (/\ BookExists(b)
        /\ \E c \in DOMAIN copies : copies[c].alive /\ copies[c].book_id = b
        /\ DeleteBook(u, b, o))
         => UNCHANGED <<books, copies, readers, borrows, fines, payments>>
  /\ \A u \in Callers, b \in BookIds, o \in MirrorOutcomes :
       (DeleteBookError(u, b) = "ok" /\ DeleteBook(u, b, o))
         => /\ ~BookExists(b)'
            /\ \A x \in DOMAIN books : x # b => books'[x] = books[x]
            /\ UNCHANGED <<copies, readers, borrows, fines, payments>>

DeleteCopyAndBookGuarded ==
  /\ []DeleteRejected
  /\ [][DeleteGuarded]_vars

\* C16: a successful return_book leaves the record "damaged_returned" when
\* the damage flag is set, "overdue_returned" when it is not set and the
\* return is overdue by at least one day, and "returned" otherwise; a
\* damaged and overdue return still accrues the overdue fine and its
\* FineRecord has the reason "overdue".
ReturnLabel ==
  [][\/ borrows' = borrows
     \/ \A u \in Callers, i \in DOMAIN borrows, d \in BOOLEAN :
          (ReturnError(u, i) = "ok" /\ ReturnBook(u, i, d)) =>
            /\ borrows'[i].status =
                 (IF d THEN "damaged_returned"
                  ELSE IF DaysLate(i) > 0 THEN "overdue_returned"
                  ELSE "returned")
            /\ (d /\ DaysLate(i) > 0) =>
                 /\ borrows'[i].overdue_days = DaysLate(i)
                 /\ borrows'[i].fine_amount
                      = DaysLate(i) * FinePerDay(i) + DamageFine
                 /\ Len(fines') = Len(fines) + 1
                 /\ fines'[Len(fines')].borrow_id = i
                 /\ fines'[Len(fines')].reason = "overdue"]_vars

\* A damaged copy came back late with the overdue fine accrued, and an
\* undamaged one came back late.
ReturnLabelWitness ==
  \E i, j \in DOMAIN borrows, f \in DOMAIN fines :
    /\ borrows[i].status = "damaged_returned" /\ borrows[i].overdue_days > 0
    /\ borrows[i].fine_amount > DamageFine
    /\ fines[f].borrow_id = i /\ fines[f].reason = "overdue"
    /\ borrows[j].status = "overdue_returned"

\* C17: every BookCopy is referenced by exactly one open BorrowRecord when
\* its status is "borrowed" and by none otherwise.
CopyLentOnce ==
  \A c \in DOMAIN copies :
    copies[c].alive =>
      Cardinality({i \in DOMAIN borrows :
                     borrows[i].copy_id = c /\ borrows[i].status = "borrowed"})
        = (IF copies[c].status = "borrowed" THEN 1 ELSE 0)

WithinLimit(r) ==
  OpenBorrows(r) <= Categories[readers[r].category_id].max_borrow_count

\* C18 as stated: in every reachable state every reader's number of open
\* BorrowRecords is at most max_borrow_count of the reader's current
\* category.
WithinCategoryLimit ==
  \A r \in DOMAIN readers : readers[r].alive => WithinLimit(r)

\* C18 as amended: a successful borrow leaves the reader with at most
\* max_borrow_count open BorrowRecords of the category the reader has at
\* that time, and no call that leaves the reader's category as it is takes
\* a reader over the limit; only update_reader, by moving a reader to a
\* category with a lower limit, leaves a reader above it.
LimitKeptButForCategoryChange ==
  [][\/ UNCHANGED <<readers, borrows>>
     \/ /\ \A u \in Callers, r \in 0..Len(readers), c \in 0..Len(copies) :
            (BorrowError(u, r, c) = "ok" /\ Borrow(u, r, c))
              => WithinLimit(ActingReader(u, r))'
        /\ \A r \in DOMAIN readers :
            (/\ readers[r].alive /\ readers'[r].alive
             /\ WithinLimit(r)
             /\ readers'[r].category_id = readers[r].category_id)
              => WithinLimit(r)']_vars

\* A reader borrowed up to the limit of one category and was then moved to
\* a category with a lower limit.
CategoryLimitWitness ==
  \E r \in DOMAIN readers :
    /\ readers[r].alive /\ edits = 1
    /\ OpenBorrows(r) = 2
    /\ Categories[readers[r].category_id].max_borrow_count = 1

====
